---- MODULE Spec2Model ----
(***************************************************************************)
(* Season simulation and league-table accumulation of football-data-lab:   *)
(* generate_season_fixtures and simulate_season_matches (src/src/matches.py)*)
(* with initialize_league_table (src/src/leagues.py) and                    *)
(* simulate_match_score / generate_id (src/src/utils.py).                   *)
(*                                                                         *)
(* Conventions.  A DataFrame is a sequence of records (row k of the frame   *)
(* is element k+1 of the sequence: Python indexes from 0, TLA+ from 1).     *)
(* A Python str of result codes is a sequence of one-letter strings.        *)
(* Ratings carry one decimal in the source and are kept in tenths; a team   *)
(* strength (a mean) is the exact fraction [num, den].  None is modelled by *)
(* the value -1 in the integer columns home_goals and away_goals.           *)
(***************************************************************************)
EXTENDS Integers, Sequences, FiniteSets, TLC

\* ---------------------------------------------------------------- bounds
\* Largest number of clubs in the clubs frame handed to the generator.
MaxClubs == 4
\* Largest goal count a single Poisson draw returns in the model.
MaxGoals == 2
\* Number of distinct states of the pseudo-random stream.
RngMod == 61
\* Number of times the caller applies simulate_season_matches to the fixtures.
MaxRuns == 2

\* ------------------------------------------------------- program constants
\* matches.py:112  team_strengths[...] = 65.0 (in tenths)
DEFAULT_STRENGTH_TENTHS == 650
\* matches.py:177  (current_form + result)[-5:]
FORM_WINDOW == 5

\* config.py:29  CURRENT_SEASON = "2024/25", as the two numbers around "/"
CURRENT_SEASON == <<2024, 25>>

\* config.py:180  MATCH_CONFIG["home_advantage"] = 0.15, as a fraction
HOME_ADVANTAGE == [num |-> 15, den |-> 100]

\* ------------------------------------------------------------ utils.py
\* The decimal digits of n, most significant first.
RECURSIVE Digits(_)
Digits(n) == IF n < 10 THEN <<n>> ELSE Digits(n \div 10) \o <<n % 10>>

\* Python's format spec 05d: zero-padded to at least five digits.
RECURSIVE ZeroPad(_, _)
ZeroPad(ds, width) == IF Len(ds) >= width THEN ds ELSE ZeroPad(<<0>> \o ds, width)

\* utils.py generate_id: f"{prefix}_{number:05d}"
generate_id(prefix, number) == <<prefix>> \o ZeroPad(Digits(number), 5)

\* ----------------------------------------------------- datetime helpers
DaysInMonth(y, m) ==
    IF m \in {4, 6, 9, 11} THEN 30
    ELSE IF m = 2 THEN (IF (y % 4 = 0 /\ y % 100 # 0) \/ y % 400 = 0 THEN 29 ELSE 28)
    ELSE 31

\* A plausible slip: the week is taken off the date.
AddDaysBack(dt, n) == [dt EXCEPT !.day = dt.day - n]

\* datetime + timedelta(days = n), n >= 0
RECURSIVE AddDays(_, _)
AddDays(dt, n) ==
    IF n = 0 THEN dt
    ELSE IF dt.day < DaysInMonth(dt.year, dt.month)
         THEN AddDays([dt EXCEPT !.day = dt.day + 1], n - 1)
    ELSE IF dt.month < 12
         THEN AddDays([dt EXCEPT !.month = dt.month + 1, !.day = 1], n - 1)
    ELSE AddDays([year |-> dt.year + 1, month |-> 1, day |-> 1], n - 1)

\* strftime("%Y-%m-%d"): the three zero-padded fields, in this order
strftime(dt) == <<ZeroPad(Digits(dt.year), 4), ZeroPad(Digits(dt.month), 2),
                  ZeroPad(Digits(dt.day), 2)>>

\* A plausible slip: the pairs are enumerated by their second club first.
RECURSIVE PairLoopByColumn(_, _, _)
PairLoopByColumn(i, j, num_clubs) ==
    IF j > num_clubs THEN <<>>
    ELSE IF i >= j THEN PairLoopByColumn(1, j + 1, num_clubs)
    ELSE <<<<i, j>>>> \o PairLoopByColumn(i + 1, j, num_clubs)

\* ------------------------------------------- generate_season_fixtures
\* matches.py:50-51  for i in range(num_clubs): for j in range(i + 1, num_clubs)
\* (1-based here): the pairs i < j in lexicographic order.
RECURSIVE PairLoop(_, _, _)
PairLoop(i, j, num_clubs) ==
    IF i > num_clubs THEN <<>>
    ELSE IF j > num_clubs THEN PairLoop(i + 1, i + 2, num_clubs)
    ELSE <<<<i, j>>>> \o PairLoop(i, j + 1, num_clubs)

\* A plausible slip: the reverse pass does not swap the venue.
FixtureIdxNoSwap(round_num, i, j) == <<i, j>>

\* matches.py:52-55  home_idx, away_idx by round
FixtureIdx(round_num, i, j) == IF round_num = 0 THEN <<i, j>> ELSE <<j, i>>

\* A plausible slip: the scores start at 0 instead of None.
NewFixtureZeroScores(match_id_counter, season, matchday, current_date, club_ids, i, j, round_num) ==
    LET hx == FixtureIdx(round_num, i, j)
    IN [match_id     |-> generate_id("MTH", match_id_counter),
        season       |-> season,
        matchday     |-> matchday,
        date         |-> strftime(current_date),
        home_club_id |-> club_ids[hx[1]],
        away_club_id |-> club_ids[hx[2]],
        home_goals   |-> 0,
        away_goals   |-> 0,
        status       |-> "scheduled"]

\* matches.py:57-69  the fixture dict
NewFixture(match_id_counter, season, matchday, current_date, club_ids, i, j, round_num) ==
    LET hx == FixtureIdx(round_num, i, j)
    IN [match_id     |-> generate_id("MTH", match_id_counter),
        season       |-> season,
        matchday     |-> matchday,
        date         |-> strftime(current_date),
        home_club_id |-> club_ids[hx[1]],
        away_club_id |-> club_ids[hx[2]],
        home_goals   |-> -1,
        away_goals   |-> -1,
        status       |-> "scheduled"]

\* A plausible slip: the date moves on a week after every pass.
GenRoundWeekly(g, club_ids, season, round_num) ==
    LET num_clubs == Len(club_ids)
        pairs     == PairLoop(1, 2, num_clubs)
        added     == [k \in 1..Len(pairs) |->
                        NewFixture(g.match_id_counter + k - 1, season, g.matchday,
                                   g.current_date, club_ids,
                                   pairs[k][1], pairs[k][2], round_num)]
        fx        == g.fixtures \o added
        ctr       == g.match_id_counter + Len(pairs)
    IN IF g.error # "none" THEN g
       ELSE IF num_clubs \div 2 = 0
       THEN [g EXCEPT !.fixtures = fx, !.match_id_counter = ctr,
                      !.error = "ZeroDivisionError"]
       ELSE [g EXCEPT !.fixtures = fx, !.match_id_counter = ctr,
                      !.current_date = AddDays(g.current_date, 7),
                      !.matchday = g.matchday + 1]

\* matches.py:49-78  one pass of the outer loop; g holds the loop's variables.
\* matchday % (num_clubs // 2) raises ZeroDivisionError when num_clubs < 2.
GenRound(g, club_ids, season, round_num) ==
    LET num_clubs == Len(club_ids)
        pairs     == PairLoop(1, 2, num_clubs)
        added     == [k \in 1..Len(pairs) |->
                        NewFixture(g.match_id_counter + k - 1, season, g.matchday,
                                   g.current_date, club_ids,
                                   pairs[k][1], pairs[k][2], round_num)]
        fx        == g.fixtures \o added
        ctr       == g.match_id_counter + Len(pairs)
    IN IF g.error # "none" THEN g
       ELSE IF num_clubs \div 2 = 0
       THEN [g EXCEPT !.fixtures = fx, !.match_id_counter = ctr,
                      !.error = "ZeroDivisionError"]
       ELSE [g EXCEPT !.fixtures = fx, !.match_id_counter = ctr,
                      !.current_date =
                          IF g.matchday % (num_clubs \div 2) = 0
                          THEN AddDays(g.current_date, 7) ELSE g.current_date,
                      !.matchday = g.matchday + 1]

\* matches.py:34-80.  The result is [error, fixtures]: error "none" with the
\* returned frame, or the exception raised, in which case nothing is returned.
\* The clubs frame has its columns also when it has no rows, so that line 34
\* reads an empty club_id column.
generate_season_fixtures(clubs, season) ==
    LET club_ids    == [k \in 1..Len(clubs) |-> clubs[k].club_id]
        season_year == season[1]
        g0 == [fixtures |-> <<>>, match_id_counter |-> 1, matchday |-> 1,
               current_date |-> [year |-> season_year, month |-> 8, day |-> 15],
               error |-> "none"]
        g2 == GenRound(GenRound(g0, club_ids, season, 0), club_ids, season, 1)
    IN IF g2.error # "none"
       THEN [error |-> g2.error, fixtures |-> <<>>]
       ELSE [error |-> "none", fixtures |-> g2.fixtures]

\* A plausible slip: the table does not start from zero points.
TableEntryOnePoint(club, season) ==
    [season |-> season, club_id |-> club.club_id, position |-> 0,
     played |-> 0, won |-> 0, drawn |-> 0, lost |-> 0,
     goals_for |-> 0, goals_against |-> 0, goal_difference |-> 0,
     points |-> 1, form |-> <<>>,
     home_wins |-> 0, home_draws |-> 0, home_losses |-> 0,
     away_wins |-> 0, away_draws |-> 0, away_losses |-> 0]

\* ------------------------------------------------------------ leagues.py
\* leagues.py:77-97  the zeroed table entry of one club
TableEntry(club, season) ==
    [season |-> season, club_id |-> club.club_id, position |-> 0,
     played |-> 0, won |-> 0, drawn |-> 0, lost |-> 0,
     goals_for |-> 0, goals_against |-> 0, goal_difference |-> 0,
     points |-> 0, form |-> <<>>,
     home_wins |-> 0, home_draws |-> 0, home_losses |-> 0,
     away_wins |-> 0, away_draws |-> 0, away_losses |-> 0]

\* leagues.py:63-100  one entry per club, in the order of the clubs frame
initialize_league_table(clubs_, season) ==
    [k \in 1..Len(clubs_) |-> TableEntry(clubs_[k], season)]

\* ------------------------------------------------- team strengths
\* players[players["club_id"] == club_id]
RECURSIVE ClubPlayers(_, _)
ClubPlayers(players_, club_id) ==
    IF players_ = <<>> THEN <<>>
    ELSE (IF Head(players_).club_id = club_id THEN <<Head(players_)>> ELSE <<>>)
         \o ClubPlayers(Tail(players_), club_id)

RECURSIVE SumRatings(_)
SumRatings(ps) == IF ps = <<>> THEN 0 ELSE Head(ps).overall_rating + SumRatings(Tail(ps))

\* A plausible slip: no fallback for an empty roster (the mean of nothing).
ClubStrengthNoDefault(players_, club_id) ==
    [num |-> SumRatings(ClubPlayers(players_, club_id)),
     den |-> 10 * Len(ClubPlayers(players_, club_id))]

\* matches.py:108-112  mean overall_rating of the club's players, else 65.0
ClubStrength(players_, club_id) ==
    LET club_players == ClubPlayers(players_, club_id)
    IN IF club_players # <<>>
       THEN [num |-> SumRatings(club_players), den |-> 10 * Len(club_players)]
       ELSE [num |-> DEFAULT_STRENGTH_TENTHS, den |-> 10]

\* matches.py:106-112  the dict club_id -> strength
TeamStrengths(clubs_, players_) ==
    [cid \in {clubs_[k].club_id : k \in 1..Len(clubs_)} |-> ClubStrength(players_, cid)]

\* ------------------------------------------------- simulate_match_score
\* One step of the pseudo-random stream behind np.random.
NextRng(r) == (r * 17 + 5) % RngMod

\* np.random.poisson(lam) on stream state r: [value, rng].  A mean of 0 gives 0
\* goals; any other mean gives a non-negative count read off the stream.
Poisson(lam, r) ==
    IF lam.num = 0 THEN [value |-> 0, rng |-> r]
    ELSE [value |-> NextRng(r) % (MaxGoals + 1), rng |-> NextRng(r)]

\* Euclid's algorithm.  Each round works on the values of its two arguments
\* (x and y range over one-element sets), not on the expressions handed down.
RECURSIVE Gcd(_, _)
Gcd(a, b) ==
    CHOOSE g \in {IF y = 0 THEN x ELSE Gcd(y, x % y) : x \in {a}, y \in {b}} : TRUE

\* The fraction n/d in lowest terms; 0/0 (nan) is kept as it is.
Reduce(n, d) ==
    IF Gcd(n, d) = 0 THEN [num |-> n, den |-> d]
    ELSE [num |-> n \div Gcd(n, d), den |-> d \div Gcd(n, d)]

\* A plausible slip: the goal budget is shared over the unadjusted total.
ExpectedGoalsRawTotal(home_strength, away_strength, home_advantage) ==
    LET hs    == Reduce(home_strength.num, home_strength.den)
        aw    == Reduce(away_strength.num, away_strength.den)
        adj   == Reduce(hs.num * (home_advantage.den + home_advantage.num),
                        hs.den * home_advantage.den)
        total == hs.num * aw.den * adj.den + aw.num * hs.den * adj.den
    IN [home_xg |-> Reduce(adj.num * aw.den * hs.den * 27, total * 10),
        away_xg |-> Reduce(aw.num * adj.den * hs.den * 27, total * 10)]

\* utils.py:463-469  home_xg and away_xg as exact fractions.  With
\* adj = home_strength * (1 + home_advantage) and total = adj + away_strength,
\* adj / total and away_strength / total are taken over the common denominator
\* adj.den * away_strength.den.  When both strengths are 0 the division
\* 0.0/0.0 gives nan (den = 0 here).
ExpectedGoals(home_strength, away_strength, home_advantage) ==
    LET hs    == Reduce(home_strength.num, home_strength.den)
        aw    == Reduce(away_strength.num, away_strength.den)
        adj   == Reduce(hs.num * (home_advantage.den + home_advantage.num),
                        hs.den * home_advantage.den)
        total == adj.num * aw.den + aw.num * adj.den
    IN [home_xg |-> Reduce(adj.num * aw.den * 27, total * 10),
        away_xg |-> Reduce(aw.num * adj.den * 27, total * 10)]

\* A plausible slip: the away side's goals are drawn first.
simulate_match_score_away_first(home_strength, away_strength, home_advantage, r) ==
    LET xg == ExpectedGoals(home_strength, away_strength, home_advantage)
        a  == Poisson(xg.away_xg, r)
        h  == Poisson(xg.home_xg, a.rng)
    IN IF xg.home_xg.den = 0
       THEN [error |-> "ValueError", home_goals |-> -1, away_goals |-> -1, rng |-> r]
       ELSE [error |-> "none", home_goals |-> h.value, away_goals |-> a.value,
             rng |-> h.rng]

\* utils.py:448-477  two draws from the one stream, the home side's first.
\* np.random.poisson(nan) raises ValueError.
simulate_match_score(home_strength, away_strength, home_advantage, r) ==
    LET Sample(xg) ==
            LET h == Poisson(xg.home_xg, r)
                a == Poisson(xg.away_xg, h.rng)
            IN IF xg.home_xg.den = 0
               THEN [error |-> "ValueError", home_goals |-> -1, away_goals |-> -1,
                     rng |-> r]
               ELSE [error |-> "none", home_goals |-> h.value, away_goals |-> a.value,
                     rng |-> a.rng]
    IN \* the two means are computed once (xg ranges over a one-element set)
       CHOOSE score \in
           {Sample(xg) : xg \in {ExpectedGoals(home_strength, away_strength,
                                                home_advantage)}} : TRUE

\* ------------------------------------------------------------ table helpers
\* A plausible slip: the row is taken by position, not looked up by club.
RowIndexFirst(table, club_id) == 1

\* league_table[league_table["club_id"] == club_id].index[0]
RowIndex(table, club_id) ==
    CHOOSE k \in 1..Len(table) :
        /\ table[k].club_id = club_id
        /\ \A m \in 1..(k - 1) : table[m].club_id # club_id

\* s[-n:] for n > 0
LastN(s, n) == IF Len(s) <= n THEN s ELSE SubSeq(s, Len(s) - n + 1, Len(s))

\* A plausible slip: the window is never cut.
AppendFormNoCut(current_form, result) == current_form \o <<result>>

\* matches.py:177  (current_form + result)[-5:]
AppendForm(current_form, result) == LastN(current_form \o <<result>>, FORM_WINDOW)

\* ------------------------------------------------ per-fixture row updates
\* A plausible slip: a home win is worth 2 points.
HomeRowUpdateTwoPoints(row, hg, ag) ==
    LET base == [row EXCEPT !.played = @ + 1, !.goals_for = @ + hg,
                            !.goals_against = @ + ag]
    IN IF hg > ag
       THEN [base EXCEPT !.won = @ + 1, !.home_wins = @ + 1, !.points = @ + 2]
       ELSE IF hg < ag
       THEN [base EXCEPT !.lost = @ + 1, !.home_losses = @ + 1]
       ELSE [base EXCEPT !.drawn = @ + 1, !.home_draws = @ + 1, !.points = @ + 1]

\* A plausible slip: the position is kept live, the winner of a fixture
\* being moved to the top as its row is updated.
HomeRowUpdateLivePosition(row, hg, ag) ==
    LET base == [row EXCEPT !.played = @ + 1, !.goals_for = @ + hg,
                            !.goals_against = @ + ag]
    IN IF hg > ag
       THEN [base EXCEPT !.won = @ + 1, !.home_wins = @ + 1, !.points = @ + 3,
                         !.position = 1]
       ELSE IF hg < ag
       THEN [base EXCEPT !.lost = @ + 1, !.home_losses = @ + 1]
       ELSE [base EXCEPT !.drawn = @ + 1, !.home_draws = @ + 1, !.points = @ + 1]

\* A plausible slip: the draw branch's point is pasted into the loss branch.
HomeRowUpdateLossPoint(row, hg, ag) ==
    LET base == [row EXCEPT !.played = @ + 1, !.goals_for = @ + hg,
                            !.goals_against = @ + ag]
    IN IF hg > ag
       THEN [base EXCEPT !.won = @ + 1, !.home_wins = @ + 1, !.points = @ + 3]
       ELSE IF hg < ag
       THEN [base EXCEPT !.lost = @ + 1, !.home_losses = @ + 1, !.points = @ + 1]
       ELSE [base EXCEPT !.drawn = @ + 1, !.home_draws = @ + 1, !.points = @ + 1]

\* A plausible slip: a home draw is not booked under home_draws.
HomeRowUpdateNoHomeDraws(row, hg, ag) ==
    LET base == [row EXCEPT !.played = @ + 1, !.goals_for = @ + hg,
                            !.goals_against = @ + ag]
    IN IF hg > ag
       THEN [base EXCEPT !.won = @ + 1, !.home_wins = @ + 1, !.points = @ + 3]
       ELSE IF hg < ag
       THEN [base EXCEPT !.lost = @ + 1, !.home_losses = @ + 1]
       ELSE [base EXCEPT !.drawn = @ + 1, !.points = @ + 1]

\* matches.py:134-154  the home row after one fixture
HomeRowUpdate(row, hg, ag) ==
    LET base == [row EXCEPT !.played = @ + 1, !.goals_for = @ + hg,
                            !.goals_against = @ + ag]
    IN IF hg > ag
       THEN [base EXCEPT !.won = @ + 1, !.home_wins = @ + 1, !.points = @ + 3]
       ELSE IF hg < ag
       THEN [base EXCEPT !.lost = @ + 1, !.home_losses = @ + 1]
       ELSE [base EXCEPT !.drawn = @ + 1, !.home_draws = @ + 1, !.points = @ + 1]

\* A plausible slip: the away side is given the home side's letter.
ResultCodesHomeLetter(hg, ag) ==
    IF hg > ag THEN <<"W", "W">> ELSE IF hg < ag THEN <<"L", "L">> ELSE <<"D", "D">>

\* matches.py:138-154  result_home and result_away
ResultCodes(hg, ag) ==
    IF hg > ag THEN <<"W", "L">> ELSE IF hg < ag THEN <<"L", "W">> ELSE <<"D", "D">>

\* A plausible slip: the away row books the home side's goals as its own.
AwayRowUpdateSwapped(row, hg, ag) ==
    LET base == [row EXCEPT !.played = @ + 1, !.goals_for = @ + hg,
                            !.goals_against = @ + ag]
    IN IF ag > hg
       THEN [base EXCEPT !.won = @ + 1, !.away_wins = @ + 1, !.points = @ + 3]
       ELSE IF ag < hg
       THEN [base EXCEPT !.lost = @ + 1, !.away_losses = @ + 1]
       ELSE [base EXCEPT !.drawn = @ + 1, !.away_draws = @ + 1, !.points = @ + 1]

\* A plausible slip: played is counted on the home row only.
AwayRowUpdateNoPlayed(row, hg, ag) ==
    LET base == [row EXCEPT !.goals_for = @ + ag, !.goals_against = @ + hg]
    IN IF ag > hg
       THEN [base EXCEPT !.won = @ + 1, !.away_wins = @ + 1, !.points = @ + 3]
       ELSE IF ag < hg
       THEN [base EXCEPT !.lost = @ + 1, !.away_losses = @ + 1]
       ELSE [base EXCEPT !.drawn = @ + 1, !.away_draws = @ + 1, !.points = @ + 1]

\* A plausible slip: the away side's win is booked under home_wins.
AwayRowUpdateHomeWins(row, hg, ag) ==
    LET base == [row EXCEPT !.played = @ + 1, !.goals_for = @ + ag,
                            !.goals_against = @ + hg]
    IN IF ag > hg
       THEN [base EXCEPT !.won = @ + 1, !.home_wins = @ + 1, !.points = @ + 3]
       ELSE IF ag < hg
       THEN [base EXCEPT !.lost = @ + 1, !.away_losses = @ + 1]
       ELSE [base EXCEPT !.drawn = @ + 1, !.away_draws = @ + 1, !.points = @ + 1]

\* matches.py:158-172  the away row after one fixture
AwayRowUpdate(row, hg, ag) ==
    LET base == [row EXCEPT !.played = @ + 1, !.goals_for = @ + ag,
                            !.goals_against = @ + hg]
    IN IF ag > hg
       THEN [base EXCEPT !.won = @ + 1, !.away_wins = @ + 1, !.points = @ + 3]
       ELSE IF ag < hg
       THEN [base EXCEPT !.lost = @ + 1, !.away_losses = @ + 1]
       ELSE [base EXCEPT !.drawn = @ + 1, !.away_draws = @ + 1, !.points = @ + 1]

\* A plausible slip: the difference is taken the wrong way round.
WithGoalDifferenceReversed(table) ==
    [k \in 1..Len(table) |->
        [table[k] EXCEPT !.goal_difference = table[k].goals_against - table[k].goals_for]]

\* ------------------------------------------------------- sort and rank
\* matches.py:181  league_table["goal_difference"] = goals_for - goals_against
WithGoalDifference(table) ==
    [k \in 1..Len(table) |->
        [table[k] EXCEPT !.goal_difference = table[k].goals_for - table[k].goals_against]]

\* A plausible slip: the third key is left out.
RanksBeforeTwoKeys(a, b) ==
    \/ a.points > b.points
    \/ a.points = b.points /\ a.goal_difference > b.goal_difference

\* matches.py:183-184  a precedes b under (points, goal_difference, goals_for),
\* all three descending
RanksBefore(a, b) ==
    \/ a.points > b.points
    \/ a.points = b.points /\ a.goal_difference > b.goal_difference
    \/ a.points = b.points /\ a.goal_difference = b.goal_difference
       /\ a.goals_for > b.goals_for

\* A plausible slip: an unstable sort, a row overtaking the rows it ties with.
InsertRowUnstable(sorted, row) ==
    LET firstTied == {k \in 1..Len(sorted) : ~RanksBefore(sorted[k], row)}
        at == IF firstTied = {} THEN Len(sorted) + 1
              ELSE CHOOSE k \in firstTied : \A m \in firstTied : k <= m
    IN SubSeq(sorted, 1, at - 1) \o <<row>> \o SubSeq(sorted, at, Len(sorted))

\* The place of the next row among the rows already sorted: before the first
\* row it strictly precedes, hence after every row it ties with (stable).
InsertRow(sorted, row) ==
    LET worse == {k \in 1..Len(sorted) : RanksBefore(row, sorted[k])}
        at == IF worse = {} THEN Len(sorted) + 1
              ELSE CHOOSE k \in worse : \A m \in worse : k <= m
    IN SubSeq(sorted, 1, at - 1) \o <<row>> \o SubSeq(sorted, at, Len(sorted))

\* matches.py:182-185  sort_values on several columns (pandas sorts several
\* keys with a stable lexsort) followed by reset_index(drop=True)
RECURSIVE SortFrom(_, _, _)
SortFrom(table, k, sorted) ==
    IF k > Len(table) THEN sorted
    ELSE \* the rows sorted so far are computed once (s ranges over a one-element set)
         CHOOSE result \in
             {SortFrom(table, k + 1, s) : s \in {InsertRow(sorted, table[k])}} : TRUE

sort_values(table) == SortFrom(table, 1, <<>>)

\* A plausible slip: positions counted from 0.
AssignPositionsFromZero(table) ==
    [k \in 1..Len(table) |-> [table[k] EXCEPT !.position = k - 1]]

\* matches.py:188  league_table["position"] = range(1, len(league_table) + 1)
AssignPositions(table) ==
    [k \in 1..Len(table) |-> [table[k] EXCEPT !.position = k]]

\* ------------------------------------------------------------ the state
VARIABLES
    clubs,          \* the clubs frame: rows [club_id]
    players,        \* the players frame: rows [club_id, overall_rating]
    roster,         \* the clubs frame handed to simulate_season_matches
    stream0,        \* the state of the random stream when the current call began
    rng,            \* state of the np.random stream
    fixtures,       \* the fixtures frame, updated in place by the simulator
    league_table,   \* the simulator's league_table
    team_strengths, \* the simulator's team_strengths dict
    idx,            \* the fixture the simulator's loop is at (1-based)
    home_goals,     \* locals of the loop body
    away_goals,
    home_idx,
    away_idx,
    result_home,
    result_away,
    pc,             \* where the program is
    error,          \* the exception that ended the run, or "none"
    run,            \* how many times simulate_season_matches has been called
    returned        \* the league tables returned so far, oldest first

vars == <<clubs, players, roster, stream0, rng, fixtures, league_table, team_strengths, idx,
          home_goals, away_goals, home_idx, away_idx, result_home, result_away,
          pc, error, run, returned>>

inputs == <<clubs, players>>
locals == <<home_goals, away_goals, home_idx, away_idx, result_home, result_away>>

\* clubs.py:118  club_id = generate_id("CLB", i + 1): n distinct clubs
ClubsFrame(n) == [k \in 1..n |-> [club_id |-> generate_id("CLB", k)]]

\* The players frames tried: no players at all (every roster empty), one
\* player per club, and a first club with two players beside empty rosters.
PlayerTables(clubs_) ==
    { <<>>,
      [k \in 1..Len(clubs_) |->
          [club_id |-> clubs_[k].club_id, overall_rating |-> 700 + 25 * k]] }
    \cup (IF clubs_ = <<>> THEN {}
          ELSE { << [club_id |-> clubs_[1].club_id, overall_rating |-> 600],
                    [club_id |-> clubs_[1].club_id, overall_rating |-> 805] >> })

\* The state once the modules are imported (matches.py:16-17 seed the stream
\* with RANDOM_SEED = None, that is from the operating system's entropy) and
\* the clubs and players frames exist.
Init ==
    /\ \E n \in 0..MaxClubs : clubs = ClubsFrame(n)
    /\ players \in PlayerTables(clubs)
    /\ roster = <<>>
    /\ rng \in 0..(RngMod - 1)
    /\ stream0 = rng
    /\ fixtures = <<>>
    /\ league_table = <<>>
    /\ team_strengths = <<>>
    /\ idx = 0
    /\ home_goals = -1 /\ away_goals = -1
    /\ home_idx = 0 /\ away_idx = 0
    /\ result_home = "" /\ result_away = ""
    /\ pc = "start"
    /\ error = "none"
    /\ run = 0
    /\ returned = <<>>

\* Overall ratings in tenths, within normalize_rating's range 0..100: the
\* floor, two ratings in between and the ceiling.
Ratings == {0, 400, 655, 1000}

\* The players of a club with at most one player: none, or one of rating r.
OnePlayerRoster(club, empty, r) ==
    IF empty THEN <<>> ELSE << [club_id |-> club.club_id, overall_rating |-> r] >>

\* Two clubs, each with an empty roster or with one player of any of the
\* ratings: the rosters whose mean ratings (or the default) are the strengths
\* handed to simulate_match_score.
InitRatings ==
    /\ clubs = ClubsFrame(2)
    /\ \E r1 \in Ratings, r2 \in Ratings, e1 \in BOOLEAN, e2 \in BOOLEAN :
          players = OnePlayerRoster(clubs[1], e1, r1) \o OnePlayerRoster(clubs[2], e2, r2)
    /\ roster = <<>>
    /\ rng \in 0..(RngMod - 1)
    /\ stream0 = rng
    /\ fixtures = <<>>
    /\ league_table = <<>>
    /\ team_strengths = <<>>
    /\ idx = 0
    /\ home_goals = -1 /\ away_goals = -1
    /\ home_idx = 0 /\ away_idx = 0
    /\ result_home = "" /\ result_away = ""
    /\ pc = "start"
    /\ error = "none"
    /\ run = 0
    /\ returned = <<>>

\* generate_data.py:165  fixtures_df = generate_season_fixtures(clubs_df, CURRENT_SEASON)
GenerateFixtures ==
    /\ pc = "start"
    /\ LET r == generate_season_fixtures(clubs, CURRENT_SEASON)
       IN IF r.error # "none"
          THEN /\ pc' = "failed"
               /\ error' = r.error
               /\ UNCHANGED fixtures
          ELSE /\ pc' = "generated"
               /\ fixtures' = r.fixtures
               /\ UNCHANGED error
    /\ UNCHANGED <<inputs, roster, stream0, rng, league_table, team_strengths, idx, locals, run, returned>>

\* matches.py:101-112  the prologue of simulate_season_matches, called with
\* the clubs frame clubs_
SimulatePrologue(clubs_) ==
    /\ roster' = clubs_
    /\ stream0' = rng
    /\ league_table' = initialize_league_table(clubs_, fixtures[1].season)
    /\ team_strengths' = TeamStrengths(clubs_, players)
    /\ idx' = 1
    /\ home_goals' = -1 /\ away_goals' = -1
    /\ home_idx' = 0 /\ away_idx' = 0
    /\ result_home' = "" /\ result_away' = ""
    /\ run' = run + 1
    /\ pc' = "loop"
    /\ UNCHANGED <<inputs, rng, fixtures, error, returned>>

\* generate_data.py:169-173  the call of simulate_season_matches
SimulateSeason ==
    /\ pc = "generated"
    /\ SimulatePrologue(clubs)

\* The frame without its row d.
RemoveRow(frame, d) == SubSeq(frame, 1, d - 1) \o SubSeq(frame, d + 1, Len(frame))

\* simulate_season_matches called with a clubs frame that lacks one of the
\* clubs the fixtures were generated for
SimulateOtherRoster ==
    /\ pc = "generated"
    /\ \E d \in 1..Len(clubs) : SimulatePrologue(RemoveRow(clubs, d))

\* simulate_season_matches applied again to the fixtures it returned
SimulateAgain ==
    /\ pc = "done"
    /\ run < MaxRuns
    /\ SimulatePrologue(roster)

\* matches.py:115-129  the next fixture: its score is drawn and written to the
\* fixtures frame with status completed.  The dict lookups of lines 116-117
\* raise KeyError for a club that is not in team_strengths.
SimulateScore ==
    /\ pc = "loop"
    /\ idx <= Len(fixtures)
    /\ LET match == fixtures[idx]
           known == /\ match.home_club_id \in DOMAIN team_strengths
                    /\ match.away_club_id \in DOMAIN team_strengths
       IN IF ~known
          THEN /\ pc' = "failed"
               /\ error' = "KeyError"
               /\ UNCHANGED <<rng, fixtures, home_goals, away_goals>>
          ELSE \E s \in {simulate_match_score(team_strengths[match.home_club_id],
                                              team_strengths[match.away_club_id],
                                              HOME_ADVANTAGE, rng)} :
          IF s.error # "none"
          THEN /\ pc' = "failed"
               /\ error' = s.error
               /\ UNCHANGED <<rng, fixtures, home_goals, away_goals>>
          ELSE /\ home_goals' = s.home_goals
               /\ away_goals' = s.away_goals
               /\ rng' = s.rng
               /\ fixtures' = [fixtures EXCEPT ![idx] =
                                 [@ EXCEPT !.home_goals = s.home_goals,
                                           !.away_goals = s.away_goals,
                                           !.status = "completed"]]
               /\ pc' = "home"
               /\ UNCHANGED error
    /\ UNCHANGED <<inputs, roster, stream0, league_table, team_strengths, idx, home_idx, away_idx,
                   result_home, result_away, run, returned>>

\* matches.py:133-154  the home row
UpdateHome ==
    /\ pc = "home"
    /\ LET h == RowIndex(league_table, fixtures[idx].home_club_id)
       IN /\ home_idx' = h
          /\ league_table' = [league_table EXCEPT
                                ![h] = HomeRowUpdate(@, home_goals, away_goals)]
    /\ result_home' = ResultCodes(home_goals, away_goals)[1]
    /\ result_away' = ResultCodes(home_goals, away_goals)[2]
    /\ pc' = "away"
    /\ UNCHANGED <<inputs, roster, stream0, rng, fixtures, team_strengths, idx, home_goals, away_goals,
                   away_idx, error, run, returned>>

\* matches.py:157-172  the away row
UpdateAway ==
    /\ pc = "away"
    /\ LET a == RowIndex(league_table, fixtures[idx].away_club_id)
       IN /\ away_idx' = a
          /\ league_table' = [league_table EXCEPT
                                ![a] = AwayRowUpdate(@, home_goals, away_goals)]
    /\ pc' = "form"
    /\ UNCHANGED <<inputs, roster, stream0, rng, fixtures, team_strengths, idx, home_goals, away_goals,
                   home_idx, result_home, result_away, error, run, returned>>

\* A plausible slip: the loop steps over every other fixture.
UpdateFormSkip ==
    /\ pc = "form"
    /\ LET t1 == [league_table EXCEPT
                    ![home_idx].form = AppendForm(@, result_home)]
       IN league_table' = [t1 EXCEPT ![away_idx].form = AppendForm(@, result_away)]
    /\ idx' = idx + 2
    /\ pc' = "loop"
    /\ UNCHANGED <<inputs, roster, stream0, rng, fixtures, team_strengths, locals, error, run, returned>>

\* matches.py:175-178  both form strings, the home row's first, and on to the
\* next fixture
UpdateForm ==
    /\ pc = "form"
    /\ LET t1 == [league_table EXCEPT
                    ![home_idx].form = AppendForm(@, result_home)]
       IN league_table' = [t1 EXCEPT ![away_idx].form = AppendForm(@, result_away)]
    /\ idx' = idx + 1
    /\ pc' = "loop"
    /\ UNCHANGED <<inputs, roster, stream0, rng, fixtures, team_strengths, locals, error, run, returned>>

\* A plausible slip: the loop is left one fixture early.
RankTableEarly ==
    /\ pc = "loop"
    /\ idx > Len(fixtures) - 1
    /\ league_table' = AssignPositions(sort_values(WithGoalDifference(league_table)))
    /\ returned' = Append(returned, league_table')
    /\ pc' = "done"
    /\ UNCHANGED <<inputs, roster, stream0, rng, fixtures, team_strengths, idx, locals, error, run>>

\* matches.py:181-190  after the last fixture: goal difference, sort, positions,
\* return
RankTable ==
    /\ pc = "loop"
    /\ idx > Len(fixtures)
    /\ \E with_gd \in {WithGoalDifference(league_table)} :
          \E sorted \in {sort_values(with_gd)} :
             league_table' = AssignPositions(sorted)
    /\ returned' = Append(returned, league_table')
    /\ pc' = "done"
    /\ UNCHANGED <<inputs, roster, stream0, rng, fixtures, team_strengths, idx, locals, error, run>>

Next ==
    \/ GenerateFixtures
    \/ SimulateSeason
    \/ SimulateOtherRoster
    \/ SimulateAgain
    \/ SimulateScore
    \/ UpdateHome
    \/ UpdateAway
    \/ UpdateForm
    \/ RankTable

Spec == Init /\ [][Next]_vars

\* The program runs on once a call has begun: the next step of the loop body,
\* or the ranking after the loop, is taken when it is due (at most one of them
\* is, by pc).  When the caller calls is left open.
LoopStep == SimulateScore \/ UpdateHome \/ UpdateAway \/ UpdateForm \/ RankTable

SpecFair == Spec /\ WF_vars(LoopStep)

\* The same program on the rosters of InitRatings.
SpecRatings == InitRatings /\ [][Next]_vars

\* ================================================================ claims
\* Helpers of the properties below.
NumClubs == Len(clubs)
ClubIds == {clubs[k].club_id : k \in 1..Len(clubs)}
Rows == 1..Len(league_table)

\* The simulator is between two fixtures, or has returned.
AtRest == pc \in {"loop", "done"}

\* The fixtures this call of the simulator has fully processed.
Processed == IF pc = "done" THEN Len(fixtures) ELSE idx - 1

RECURSIVE SumOver(_, _)
SumOver(f, n) == IF n = 0 THEN 0 ELSE f[n] + SumOver(f, n - 1)

\* How many fixtures have club h at home and club a away.
Meetings(h, a) ==
    Cardinality({k \in 1..Len(fixtures) :
                    fixtures[k].home_club_id = h /\ fixtures[k].away_club_id = a})

\* C1: round-robin completeness.  Whenever the generator has been called on
\* N >= 2 distinct clubs it has returned (no error), the frame holds exactly
\* N*(N-1) fixtures, no fixture has the same club at home and away, and every
\* ordered pair of distinct clubs is the (home, away) of exactly one fixture.
C1_RoundRobinComplete ==
    (pc # "start" /\ NumClubs >= 2) =>
        /\ error # "ZeroDivisionError"
        /\ Len(fixtures) = NumClubs * (NumClubs - 1)
        /\ \A k \in 1..Len(fixtures) :
              /\ fixtures[k].home_club_id # fixtures[k].away_club_id
              /\ fixtures[k].home_club_id \in ClubIds
              /\ fixtures[k].away_club_id \in ClubIds
        /\ \A h \in ClubIds : \A a \in ClubIds : h # a => Meetings(h, a) = 1

C1_Witness ==
    /\ pc = "generated"
    /\ NumClubs >= 3
    /\ Len(fixtures) = NumClubs * (NumClubs - 1)

\* C2: points arithmetic.  At every rest state of the table (before the first
\* fixture, between two fixtures, after the last and in the returned table)
\* every row has points = 3*won + drawn and played = won + drawn + lost.
C2_PointsArithmetic ==
    AtRest =>
        \A r \in Rows :
            /\ league_table[r].points = 3 * league_table[r].won + league_table[r].drawn
            /\ league_table[r].played =
                  league_table[r].won + league_table[r].drawn + league_table[r].lost

C2_Witness ==
    /\ AtRest
    /\ \E r \in Rows :
          /\ league_table[r].won > 0
          /\ league_table[r].drawn > 0
          /\ league_table[r].lost > 0
          /\ league_table[r].home_wins > 0

\* C3: goal conservation.  At every rest state the goals_for of all rows and
\* the goals_against of all rows both add up to the goals of the fixtures
\* this call has processed, which are a prefix of the frame; in the first call
\* these are exactly the completed fixtures.
C3_GoalConservation ==
    AtRest =>
        LET gf == [r \in Rows |-> league_table[r].goals_for]
            ga == [r \in Rows |-> league_table[r].goals_against]
            fg == [k \in 1..Processed |-> fixtures[k].home_goals + fixtures[k].away_goals]
        IN /\ SumOver(gf, Len(league_table)) = SumOver(ga, Len(league_table))
           /\ SumOver(gf, Len(league_table)) = SumOver(fg, Processed)
           /\ run = 1 => \A k \in 1..Len(fixtures) :
                            (fixtures[k].status = "completed") <=> (k <= Processed)

C3_Witness ==
    /\ pc = "done"
    /\ \E k \in 1..Len(fixtures) : fixtures[k].home_goals > fixtures[k].away_goals
    /\ \E k \in 1..Len(fixtures) : fixtures[k].home_goals < fixtures[k].away_goals
    /\ \E r \in Rows : league_table[r].goals_for # league_table[r].goals_against

\* C4: form window bound.  In every reachable state, mid-update included, the
\* form of every row holds at most 5 result codes.
C4_FormWindowBound ==
    \A r \in Rows : Len(league_table[r].form) <= 5

C4_Witness ==
    \E r \in Rows : league_table[r].played > 5 /\ Len(league_table[r].form) = 5

\* C5: final ranking.  The returned table is ordered by points, then goal
\* difference, then goals for, all descending, and the row at place k (counted
\* from 1) holds position k, so the positions are exactly 1..N.
C5_FinalRanking ==
    pc = "done" =>
        /\ Len(league_table) = NumClubs
        /\ \A k \in Rows : league_table[k].position = k
        /\ \A k \in Rows : k < Len(league_table) =>
              LET a == league_table[k]
                  b == league_table[k + 1]
              IN \/ a.points > b.points
                 \/ a.points = b.points /\ a.goal_difference > b.goal_difference
                 \/ a.points = b.points /\ a.goal_difference = b.goal_difference
                    /\ a.goals_for >= b.goals_for

C5_Witness ==
    /\ pc = "done"
    /\ Len(league_table) >= 3
    /\ league_table[1].club_id # clubs[1].club_id
    /\ \E k \in Rows : k < Len(league_table)
          /\ league_table[k].points = league_table[k + 1].points
          /\ league_table[k].goal_difference = league_table[k + 1].goal_difference
          /\ league_table[k].goals_for > league_table[k + 1].goals_for

\* The place of a club in the clubs frame, which is the order of the
\* initial table.
ClubPlace(club_id) == CHOOSE k \in 1..Len(clubs) : clubs[k].club_id = club_id

SameKeys(a, b) ==
    /\ a.points = b.points
    /\ a.goal_difference = b.goal_difference
    /\ a.goals_for = b.goals_for

\* C6: ranking determinism.  When simulate_season_matches is applied again to
\* the completed fixtures it returned, the table it returns has the same row
\* order and the same positions as the table returned before.
C6_RerunSameRanking ==
    (pc = "done" /\ run >= 2) =>
        LET before == returned[run - 1]
            after  == returned[run]
        IN /\ Len(after) = Len(before)
           /\ \A k \in 1..Len(before) :
                 /\ after[k].club_id = before[k].club_id
                 /\ after[k].position = before[k].position

\* C7: tie stability.  Two rows of the returned table that are equal on
\* points, goal difference and goals for stand in the order their clubs have
\* in the clubs frame.
C7_TieStability ==
    pc = "done" =>
        \A k \in Rows : \A m \in Rows :
            (k < m /\ SameKeys(league_table[k], league_table[m])) =>
                ClubPlace(league_table[k].club_id) < ClubPlace(league_table[m].club_id)

C7_Witness ==
    /\ pc = "done"
    /\ league_table[1].club_id # clubs[1].club_id
    /\ \E k \in Rows : \E m \in Rows :
          /\ k < m
          /\ SameKeys(league_table[k], league_table[m])
          /\ league_table[k].played > 0

\* C8: position is a batch snapshot.  While the simulator is in its loop,
\* mid-update and after the last fixture included, every row still has
\* position 0; the returned table has the positions 1..N.
C8_PositionBatchSnapshot ==
    /\ pc \in {"loop", "home", "away", "form"} =>
          \A r \in Rows : league_table[r].position = 0
    /\ pc = "done" =>
          {league_table[r].position : r \in Rows} = 1..NumClubs

C8_Witness ==
    /\ pc = "loop"
    /\ idx > Len(fixtures)
    /\ \E r \in Rows : league_table[r].home_wins > 0
    /\ \A r \in Rows : league_table[r].position = 0

\* C9: fixture lifecycle.  The simulator completes only fixtures that are
\* scheduled, and a completed fixture keeps its status and both scores in
\* every later step, a further call of simulate_season_matches included.
C9_FixtureLifecycle ==
    [][/\ (pc = "loop" /\ pc' = "home") => fixtures[idx].status = "scheduled"
       /\ \A k \in 1..Len(fixtures) :
             fixtures[k].status = "completed" =>
                /\ Len(fixtures') = Len(fixtures)
                /\ fixtures'[k].status = "completed"
                /\ fixtures'[k].home_goals = fixtures[k].home_goals
                /\ fixtures'[k].away_goals = fixtures[k].away_goals]_vars

\* C10: called on fewer than 2 clubs, the generator fails with InvalidInput
\* and returns no fixtures.
C10_TooFewClubsInvalidInput ==
    (pc # "start" /\ NumClubs < 2) =>
        /\ pc = "failed"
        /\ error = "InvalidInput"
        /\ fixtures = <<>>

\* C11: called on an odd number of clubs (3 or more; fewer than 2 is C10) the
\* generator fails with InvalidInput and returns no fixtures.
C11_OddClubsInvalidInput ==
    (pc # "start" /\ NumClubs >= 3 /\ NumClubs % 2 = 1) =>
        /\ pc = "failed"
        /\ error = "InvalidInput"
        /\ fixtures = <<>>

RosterIds == {roster[k].club_id : k \in 1..Len(roster)}

\* The fixture references a club that is not in the roster.
UnknownClubIn(f) == f.home_club_id \notin RosterIds \/ f.away_club_id \notin RosterIds

\* C12: the simulator never gets past a fixture that references a club absent
\* from the roster: it fails there with UnknownClub and no league table is
\* returned.
C12_UnknownClubAborts ==
    /\ pc \in {"home", "away", "form"} => ~UnknownClubIn(fixtures[idx])
    /\ (pc = "failed" /\ run >= 1 /\ UnknownClubIn(fixtures[idx])) =>
          /\ error = "UnknownClub"
          /\ returned = <<>>

\* The points of all rows of the table, added up.
TotalPoints == SumOver([r \in Rows |-> league_table[r].points], Len(league_table))

\* C13 as stated: for 4 clubs the generator yields 12 fixtures and, after all
\* of them are simulated, the table has 4 rows and every row has played = 3.
C13_FourClubsPlayedThree ==
    /\ (pc # "start" /\ NumClubs = 4) => Len(fixtures) = 12
    /\ (pc = "done" /\ NumClubs = 4) =>
          /\ Len(league_table) = 4
          /\ \A r \in Rows : league_table[r].played = 3

\* C13 as amended: for 4 clubs the generator yields 12 fixtures and, after all
\* of them are simulated, the table has 4 rows and every row has played = 6
\* (each club meets each of the 3 others twice).
C13_FourClubsPlayedSix ==
    /\ (pc # "start" /\ NumClubs = 4) => Len(fixtures) = 12
    /\ (pc = "done" /\ NumClubs = 4) =>
          /\ Len(league_table) = 4
          /\ \A r \in Rows : league_table[r].played = 6

C13_Witness ==
    /\ pc = "done"
    /\ NumClubs = 4
    /\ Len(fixtures) = 12
    /\ \A k \in 1..Len(fixtures) : fixtures[k].status = "completed"

\* C14 as stated: for 4 clubs, after the generated fixtures are all simulated,
\* the points of all rows add up to at least 12 and at most 18.
C14_FourClubsPoints12To18 ==
    (pc = "done" /\ NumClubs = 4) => (12 <= TotalPoints /\ TotalPoints <= 18)

\* C14 as amended: for 4 clubs, after the generated fixtures are all simulated,
\* the points of all rows add up to at least 24 and at most 36 (12 fixtures,
\* each worth 2 or 3 points).
C14_FourClubsPoints24To36 ==
    (pc = "done" /\ NumClubs = 4) => (24 <= TotalPoints /\ TotalPoints <= 36)

C14_Witness ==
    /\ pc = "done"
    /\ NumClubs = 4
    /\ 24 < TotalPoints
    /\ TotalPoints < 36

\* The sum of two fractions, in lowest terms.
FracAdd(x, y) == Reduce(x.num * y.den + y.num * x.den, x.den * y.den)

\* The quotient of two fractions, in lowest terms (x : y).
FracRatio(x, y) == Reduce(x.num * y.den, y.num * x.den)

\* home_strength * (1 + home_advantage)
AdjHome(home_strength, home_advantage) ==
    Reduce(home_strength.num * (home_advantage.den + home_advantage.num),
           home_strength.den * home_advantage.den)

\* share / (adj_home + away_strength) * 2.7, for share = x
BudgetShare(x, adj, away) ==
    LET num   == FracRatio(x, [num |-> 1, den |-> 1])
        total == FracAdd(adj, away)
    IN Reduce(num.num * total.den * 27, num.den * total.num * 10)

\* The strengths of the fixture being processed.
HomeStrength == Reduce(team_strengths[fixtures[idx].home_club_id].num,
                       team_strengths[fixtures[idx].home_club_id].den)
AwayStrength == Reduce(team_strengths[fixtures[idx].away_club_id].num,
                       team_strengths[fixtures[idx].away_club_id].den)

\* C15: whenever a score has been drawn for strengths with
\* adj_home + away_strength > 0, the Poisson means are
\* adj_home/(adj_home+away_strength)*2.7 and away_strength/(adj_home+away_strength)*2.7,
\* they add up to 2.7, they are in the ratio adj_home : away_strength, and the
\* two goal counts are non-negative integers (0 for a mean of 0); the draw
\* fails only when both strengths are 0.
C15_ExpectedGoalsFormula ==
    /\ (pc = "home" /\ HomeStrength.num + AwayStrength.num > 0) =>
          LET adj == AdjHome(HomeStrength, HOME_ADVANTAGE)
              xg  == ExpectedGoals(HomeStrength, AwayStrength, HOME_ADVANTAGE)
          IN /\ xg.home_xg = BudgetShare(adj, adj, AwayStrength)
             /\ xg.away_xg = BudgetShare(AwayStrength, adj, AwayStrength)
             /\ FracAdd(xg.home_xg, xg.away_xg) = [num |-> 27, den |-> 10]
             /\ FracRatio(xg.home_xg, xg.away_xg) = FracRatio(adj, AwayStrength)
             /\ home_goals \in Nat /\ away_goals \in Nat
             /\ xg.home_xg.num = 0 => home_goals = 0
             /\ xg.away_xg.num = 0 => away_goals = 0
    /\ (pc = "failed" /\ error = "ValueError") =>
          HomeStrength.num + AwayStrength.num = 0

\* A score drawn for unequal positive strengths with a goal for each side.
C15_Witness ==
    /\ pc = "home"
    /\ HomeStrength.num > 0 /\ AwayStrength.num > 0
    /\ HomeStrength # AwayStrength
    /\ home_goals > 0 /\ away_goals > 0

\* The letter club c earned in fixture k, read off the recorded score.
ClubLetter(k, c) ==
    LET own   == IF fixtures[k].home_club_id = c THEN fixtures[k].home_goals
                 ELSE fixtures[k].away_goals
        other == IF fixtures[k].home_club_id = c THEN fixtures[k].away_goals
                 ELSE fixtures[k].home_goals
    IN IF own > other THEN "W" ELSE IF own < other THEN "L" ELSE "D"

\* Whether club c plays in fixture k.
PlaysIn(k, c) == c \in {fixtures[k].home_club_id, fixtures[k].away_club_id}

\* The letters of club c over the first n fixtures of the list, oldest first.
RECURSIVE ClubLetters(_, _)
ClubLetters(c, n) ==
    IF n = 0 THEN <<>>
    ELSE ClubLetters(c, n - 1) \o (IF PlaysIn(n, c) THEN <<ClubLetter(n, c)>> ELSE <<>>)

\* C16: form content.  Between two fixtures and after the call, each row's
\* form is the sequence of the club's result letters over the fixtures
\* processed so far, in processing order, cut to the last 5 with the most
\* recent last; its length is min(played, 5).
C16_FormContent ==
    (AtRest /\ run >= 1) =>
        \A r \in Rows :
            /\ league_table[r].form =
                  LastN(ClubLetters(league_table[r].club_id, Processed), FORM_WINDOW)
            /\ Len(league_table[r].form) =
                  IF league_table[r].played < FORM_WINDOW
                  THEN league_table[r].played ELSE FORM_WINDOW

\* A club with more than 5 matches whose window holds all three letters.
C16_Witness ==
    /\ AtRest
    /\ \E r \in Rows :
          /\ league_table[r].played > FORM_WINDOW
          /\ {league_table[r].form[k] : k \in 1..Len(league_table[r].form)}
                = {"W", "D", "L"}

\* The row of club c in table t.
RowOf(t, c) == t[CHOOSE r \in 1..Len(t) : t[r].club_id = c]

\* The result counters of a row, and what a fixture is said to add to them.
Counters(row) ==
    [won |-> row.won, drawn |-> row.drawn, lost |-> row.lost, points |-> row.points,
     home_wins |-> row.home_wins, home_draws |-> row.home_draws,
     home_losses |-> row.home_losses, away_wins |-> row.away_wins,
     away_draws |-> row.away_draws, away_losses |-> row.away_losses]

NoCounters ==
    [won |-> 0, drawn |-> 0, lost |-> 0, points |-> 0,
     home_wins |-> 0, home_draws |-> 0, home_losses |-> 0,
     away_wins |-> 0, away_draws |-> 0, away_losses |-> 0]

CountersPlus(x, y) ==
    [f \in DOMAIN x |-> x[f] + y[f]]

HomeGain(hg, ag) ==
    IF hg > ag THEN [NoCounters EXCEPT !.won = 1, !.home_wins = 1, !.points = 3]
    ELSE IF hg < ag THEN [NoCounters EXCEPT !.lost = 1, !.home_losses = 1]
    ELSE [NoCounters EXCEPT !.drawn = 1, !.home_draws = 1, !.points = 1]

AwayGain(hg, ag) ==
    IF hg > ag THEN [NoCounters EXCEPT !.lost = 1, !.away_losses = 1]
    ELSE IF hg < ag THEN [NoCounters EXCEPT !.won = 1, !.away_wins = 1, !.points = 3]
    ELSE [NoCounters EXCEPT !.drawn = 1, !.away_draws = 1, !.points = 1]

\* The step that books the fixture's score on the home row, on the away row.
HomeRowStep == pc = "home" /\ pc' = "away"
AwayRowStep == pc = "away" /\ pc' = "form"

C17_Step ==
    /\ HomeRowStep =>
          Counters(RowOf(league_table', fixtures[idx].home_club_id)) =
             CountersPlus(Counters(RowOf(league_table, fixtures[idx].home_club_id)),
                          HomeGain(fixtures[idx].home_goals, fixtures[idx].away_goals))
    /\ AwayRowStep =>
          Counters(RowOf(league_table', fixtures[idx].away_club_id)) =
             CountersPlus(Counters(RowOf(league_table, fixtures[idx].away_club_id)),
                          AwayGain(fixtures[idx].home_goals, fixtures[idx].away_goals))

C17_Split ==
    \A r \in Rows :
        /\ league_table[r].won = league_table[r].home_wins + league_table[r].away_wins
        /\ league_table[r].drawn = league_table[r].home_draws + league_table[r].away_draws
        /\ league_table[r].lost = league_table[r].home_losses + league_table[r].away_losses

\* C17: result classification.  Processing a fixture won by the home side adds
\* 1 to the home row's won and home_wins and 3 to its points, and 1 to the away
\* row's lost and away_losses; a fixture won by the away side is the mirror
\* image; a draw adds 1 to drawn and 1 point on both rows, under home_draws on
\* the home row and away_draws on the away row; no other result counter moves.
\* Hence every row always has won = home_wins + away_wins,
\* drawn = home_draws + away_draws and lost = home_losses + away_losses.
C17_ResultClassification == [][C17_Step]_vars /\ []C17_Split

\* A club that has won, drawn and lost both at home and away.
C17_Witness ==
    \E r \in Rows :
        /\ league_table[r].home_wins > 0 /\ league_table[r].away_wins > 0
        /\ league_table[r].home_draws > 0 /\ league_table[r].away_draws > 0
        /\ league_table[r].home_losses > 0 /\ league_table[r].away_losses > 0

\* A step taken while the fixture at idx is being processed.
FixtureStep == pc \in {"loop", "home", "away", "form"} /\ pc' # "done"

\* Whether row r of the table belongs to the home club, the away club, of the
\* fixture at idx.
IsHomeRow(r) == league_table[r].club_id = fixtures[idx].home_club_id
IsAwayRow(r) == league_table[r].club_id = fixtures[idx].away_club_id

C18_Step ==
    FixtureStep =>
        /\ team_strengths' = team_strengths
        /\ Len(league_table') = Len(league_table)
        /\ \A r \in Rows :
              (~IsHomeRow(r) /\ ~IsAwayRow(r)) => league_table'[r] = league_table[r]
        /\ HomeRowStep =>
              \A r \in Rows : (league_table'[r] # league_table[r]) <=> IsHomeRow(r)
        /\ AwayRowStep =>
              \A r \in Rows : (league_table'[r] # league_table[r]) <=> IsAwayRow(r)

\* C18: frame of a fixture update.  Processing one fixture between distinct
\* clubs h and a changes exactly the rows of h and a (the step for the home
\* side changes the row of h and no other, the step for the away side the row
\* of a and no other); every field of every other row, and the team strengths,
\* stay as they were.
C18_FixtureFrame == [][C18_Step]_vars

\* Both rows of a fixture are booked while a third club, which has already
\* played, looks on.
C18_Witness ==
    /\ pc = "form"
    /\ fixtures[idx].home_club_id # fixtures[idx].away_club_id
    /\ \E r \in Rows : ~IsHomeRow(r) /\ ~IsAwayRow(r) /\ league_table[r].played > 0

\* The places of the list whose fixture is completed.
Completed == {k \in 1..Len(fixtures) : fixtures[k].status = "completed"}

\* The steps that draw and record a score, that append the two form letters.
ScoreStep == pc = "loop" /\ pc' = "home"
FormStep  == pc = "form" /\ pc' = "loop"

\* The completed fixtures are a prefix of the list; during the first call the
\* prefix ends at the fixture last taken up.
C19_Prefix ==
    /\ \A k \in Completed : \A j \in 1..k : j \in Completed
    /\ (returned = <<>> /\ pc \in {"loop", "failed"} /\ run >= 1) =>
          Completed = 1..(idx - 1)
    /\ (returned = <<>> /\ pc \in {"home", "away", "form"}) => Completed = 1..idx

C19_Step ==
    /\ FixtureStep => idx' = (IF pc = "form" THEN idx + 1 ELSE idx)
    /\ ScoreStep =>
          /\ Len(fixtures') = Len(fixtures)
          /\ \A k \in 1..Len(fixtures) : k # idx => fixtures'[k] = fixtures[k]
          /\ fixtures'[idx].status = "completed"
    /\ FormStep =>
          \A r \in Rows :
             (IsHomeRow(r) \/ IsAwayRow(r)) =>
                league_table'[r].form =
                   LastN(league_table[r].form
                            \o <<ClubLetter(idx, league_table[r].club_id)>>, FORM_WINDOW)

\* C19: processing order.  The simulator takes the fixtures up one by one in
\* the order of the input list: the place in the list never goes back and
\* never skips, a score is written to the fixture at that place only, so the
\* completed fixtures are at every point a prefix of the list, and each letter
\* appended to a form string is that of the fixture at the current place,
\* hence of a later-listed fixture than every letter appended before it.
C19_ProcessingOrder == []C19_Prefix /\ [][C19_Step]_vars

\* Mid-list in the first call: some fixtures completed, others still to come,
\* and a club with two letters in its form.
C19_Witness ==
    /\ returned = <<>>
    /\ pc = "loop"
    /\ Completed # {} /\ Completed # 1..Len(fixtures)
    /\ \E r \in Rows : Len(league_table[r].form) >= 2

\* Whether the row of club c counts every completed fixture of c.
Reflected(c) ==
    RowOf(league_table, c).played = Cardinality({j \in Completed : PlaysIn(j, c)})

\* C20: step order within one fixture.  A fixture is marked completed only
\* after both participant rows have been updated for it: in no state of the
\* first call is there a completed fixture that neither its home row nor its
\* away row reflects.
C20_CompletedAfterRows ==
    (run = 1 /\ roster = clubs /\ pc \in {"loop", "home", "away", "form", "done"}) =>
        \A k \in Completed :
            Reflected(fixtures[k].home_club_id) \/ Reflected(fixtures[k].away_club_id)

\* C21: goal difference.  In the table returned after the last fixture every
\* row has goal_difference = goals_for - goals_against, so the goal differences
\* add up to 0; the field is computed once, after the last fixture: while
\* fixtures are still being processed it keeps its initial 0 in every row.
C21_GoalDifference ==
    /\ pc = "done" =>
          /\ \A r \in Rows : league_table[r].goal_difference =
                                league_table[r].goals_for - league_table[r].goals_against
          /\ SumOver([r \in Rows |-> league_table[r].goal_difference],
                     Len(league_table)) = 0
    /\ pc \in {"loop", "home", "away", "form"} =>
          \A r \in Rows : league_table[r].goal_difference = 0

\* A returned table with a positive and a negative goal difference.
C21_Witness ==
    /\ pc = "done"
    /\ \E r \in Rows : league_table[r].goal_difference > 0
    /\ \E r \in Rows : league_table[r].goal_difference < 0

\* The number written by a sequence of decimal digits.
RECURSIVE DigitsValue(_)
DigitsValue(ds) ==
    IF ds = <<>> THEN 0
    ELSE 10 * DigitsValue(SubSeq(ds, 1, Len(ds) - 1)) + ds[Len(ds)]

\* A "%Y-%m-%d" date as the number yyyymmdd, which orders dates as time does.
DateKey(date) ==
    DigitsValue(date[1]) * 10000 + DigitsValue(date[2]) * 100 + DigitsValue(date[3])

\* C22: schedule metadata is advance-only.  In the list returned by the
\* generator the matchday number and the date never decrease from one fixture
\* to the next, and no date is earlier than 15 August of the season's start
\* year.
C22_ScheduleAdvanceOnly ==
    (pc # "start" /\ error = "none") =>
        /\ \A k \in 1..(Len(fixtures) - 1) :
              /\ fixtures[k].matchday <= fixtures[k + 1].matchday
              /\ DateKey(fixtures[k].date) <= DateKey(fixtures[k + 1].date)
        /\ \A k \in 1..Len(fixtures) :
              DateKey(fixtures[k].date) >= CURRENT_SEASON[1] * 10000 + 815

\* A returned list whose last fixture has a later date than its first.
C22_Witness ==
    /\ pc = "generated"
    /\ Len(fixtures) >= 2
    /\ DateKey(fixtures[1].date) < DateKey(fixtures[Len(fixtures)].date)
    /\ fixtures[1].matchday < fixtures[Len(fixtures)].matchday

\* The number of unordered pairs of clubs.
NumPairs == (NumClubs * (NumClubs - 1)) \div 2

\* The places in the clubs frame of the home and the away club of fixture k.
HomePlace(k) == ClubPlace(fixtures[k].home_club_id)
AwayPlace(k) == ClubPlace(fixtures[k].away_club_id)

\* C23: generation order.  The returned list holds first, for the pairs i < j
\* in lexicographic order of (i, j), the fixture with club i at home and club
\* j away, and then, for the same pairs in the same order, the fixture with j
\* at home and i away; the match ids are MTH_00001, MTH_00002, ... in this
\* order, hence pairwise different.
C23_GenerationOrder ==
    (pc # "start" /\ error = "none") =>
        /\ Len(fixtures) = 2 * NumPairs
        /\ \A k \in 1..NumPairs : HomePlace(k) < AwayPlace(k)
        /\ \A k \in 1..(NumPairs - 1) :
              \/ HomePlace(k) < HomePlace(k + 1)
              \/ HomePlace(k) = HomePlace(k + 1) /\ AwayPlace(k) < AwayPlace(k + 1)
        /\ \A k \in 1..NumPairs :
              /\ fixtures[NumPairs + k].home_club_id = fixtures[k].away_club_id
              /\ fixtures[NumPairs + k].away_club_id = fixtures[k].home_club_id
        /\ \A k \in 1..Len(fixtures) :
              /\ fixtures[k].match_id[1] = "MTH"
              /\ Len(fixtures[k].match_id) = 6
              /\ DigitsValue(Tail(fixtures[k].match_id)) = k
        /\ \A k \in 1..Len(fixtures) : \A m \in 1..Len(fixtures) :
              k # m => fixtures[k].match_id # fixtures[m].match_id

\* A list for four clubs: the pair (1, 4) comes before the pair (2, 3), and
\* the ids reach two digits.
C23_Witness ==
    /\ pc = "generated"
    /\ NumClubs = 4
    /\ HomePlace(3) = 1 /\ AwayPlace(3) = 4
    /\ HomePlace(4) = 2 /\ AwayPlace(4) = 3
    /\ fixtures[12].match_id = <<"MTH", 0, 0, 0, 1, 2>>

\* None in the score columns.
Null == -1

\* The states between fixture updates: the list just generated, the head of
\* the loop, the end of a call, and a call that has failed.
BetweenUpdates == pc \in {"generated", "loop", "done", "failed"}

\* C24: score sentinel.  Every fixture is created scheduled with both scores
\* null, and between fixture updates a fixture is scheduled exactly when both
\* its scores are null and completed exactly when both are non-negative
\* integers.
C24_ScoreSentinel ==
    /\ pc = "generated" =>
          \A k \in 1..Len(fixtures) :
              /\ fixtures[k].status = "scheduled"
              /\ fixtures[k].home_goals = Null /\ fixtures[k].away_goals = Null
    /\ BetweenUpdates =>
          \A k \in 1..Len(fixtures) :
              /\ fixtures[k].status \in {"scheduled", "completed"}
              /\ fixtures[k].status = "scheduled" <=>
                    (fixtures[k].home_goals = Null /\ fixtures[k].away_goals = Null)
              /\ fixtures[k].status = "completed" <=>
                    (fixtures[k].home_goals \in Nat /\ fixtures[k].away_goals \in Nat)

\* Mid-season: a goalless fixture is completed and another is still scheduled.
C24_Witness ==
    /\ pc = "loop"
    /\ \E k \in 1..Len(fixtures) :
          /\ fixtures[k].status = "completed"
          /\ fixtures[k].home_goals = 0 /\ fixtures[k].away_goals = 0
    /\ \E k \in 1..Len(fixtures) : fixtures[k].status = "scheduled"

\* The stream state n draws after state r, and the goal count read off a
\* stream state.
RECURSIVE StreamAfter(_, _)
StreamAfter(r, n) == IF n = 0 THEN r ELSE NextRng(StreamAfter(r, n - 1))

GoalsAt(r) == r % (MaxGoals + 1)

\* The stream is advanced by the score step only, by two draws: the first
\* gives the home goals, the second the away goals.
C25_Step ==
    /\ ScoreStep =>
          /\ rng' = StreamAfter(rng, 2)
          /\ fixtures'[idx].home_goals = GoalsAt(StreamAfter(rng, 1))
          /\ fixtures'[idx].away_goals = GoalsAt(StreamAfter(rng, 2))
    /\ ~ScoreStep => rng' = rng

\* The scores of a call are a function of the stream state it started from:
\* the k-th fixture holds draws 2k-1 and 2k.
C25_Replay ==
    (run >= 1 /\ pc \in {"loop", "done", "failed"}) =>
        /\ rng = StreamAfter(stream0, 2 * Processed)
        /\ \A k \in 1..Processed :
              /\ fixtures[k].home_goals = GoalsAt(StreamAfter(stream0, 2 * k - 1))
              /\ fixtures[k].away_goals = GoalsAt(StreamAfter(stream0, 2 * k))

\* C25: single random stream.  Within simulate_season_matches the stream is
\* never reseeded; the k-th fixture consumes exactly two consecutive draws,
\* the home side's first and the away side's second.  Hence the scores of a
\* call are determined by the stream state the call started from, and two
\* calls started from the same stream state with the same clubs, players and
\* fixtures produce the same scores.
C25_SingleStream == [][C25_Step]_vars /\ []C25_Replay

\* A repeated call has returned, with a fixture whose two draws differ.
C25_Witness ==
    /\ pc = "done"
    /\ run = 2
    /\ \E k \in 1..Len(fixtures) : fixtures[k].home_goals # fixtures[k].away_goals

\* A call has begun on the full clubs frame.
CallBegun == pc = "loop" /\ idx = 1 /\ roster = clubs

\* What holds when a call has returned: the loop has gone through the whole
\* list, of N*(N-1) fixtures, every fixture is completed, the rows have been
\* updated 2*N*(N-1) times in all (twice per fixture), and the table has been
\* ranked once per call.
C26_AtReturn ==
    pc = "done" =>
        /\ Len(fixtures) = NumClubs * (NumClubs - 1)
        /\ idx = Len(fixtures) + 1
        /\ Completed = 1..Len(fixtures)
        /\ SumOver([r \in Rows |-> league_table[r].played], Len(league_table))
              = 2 * NumClubs * (NumClubs - 1)
        /\ Len(returned) = run

\* Within a call the loop takes up each fixture once: it moves on by one
\* fixture after each update and never comes back.
C26_Step ==
    (pc \in {"loop", "home", "away", "form"}) =>
        /\ idx' = (IF pc = "form" THEN idx + 1 ELSE idx)
        /\ pc' = "done" => idx = Len(fixtures) + 1

\* C26: termination.  For a roster of N clubs and the list generated for it,
\* a call of the season simulation performs exactly N*(N-1) fixture updates
\* followed by one ranking step and then returns with every fixture
\* completed; no fixture is processed twice or skipped within a call.
C26_Termination ==
    /\ []C26_AtReturn
    /\ [][C26_Step]_vars
    /\ CallBegun ~> (pc = "done")

\* The first call on four clubs has returned after its twelve fixtures.
C26_Witness ==
    /\ pc = "done"
    /\ Len(returned) = 1
    /\ idx = 13

\* Among the first n fixtures of the list, those with club c at home, away.
HomeOf(c, n) == {k \in 1..n : fixtures[k].home_club_id = c}
AwayOf(c, n) == {k \in 1..n : fixtures[k].away_club_id = c}

\* The goals club c has scored, conceded, in the first n fixtures.
RECURSIVE GoalsScored(_, _)
GoalsScored(c, n) ==
    IF n = 0 THEN 0
    ELSE GoalsScored(c, n - 1)
         + (IF fixtures[n].home_club_id = c THEN fixtures[n].home_goals
            ELSE IF fixtures[n].away_club_id = c THEN fixtures[n].away_goals ELSE 0)

RECURSIVE GoalsConceded(_, _)
GoalsConceded(c, n) ==
    IF n = 0 THEN 0
    ELSE GoalsConceded(c, n - 1)
         + (IF fixtures[n].home_club_id = c THEN fixtures[n].away_goals
            ELSE IF fixtures[n].away_club_id = c THEN fixtures[n].home_goals ELSE 0)

\* The row of club c obtained from the zeroed table and the recorded scores
\* of the first n fixtures alone.
Derived(c, n) ==
    LET hw == Cardinality({k \in HomeOf(c, n) : fixtures[k].home_goals > fixtures[k].away_goals})
        hd == Cardinality({k \in HomeOf(c, n) : fixtures[k].home_goals = fixtures[k].away_goals})
        hl == Cardinality({k \in HomeOf(c, n) : fixtures[k].home_goals < fixtures[k].away_goals})
        aw == Cardinality({k \in AwayOf(c, n) : fixtures[k].away_goals > fixtures[k].home_goals})
        ad == Cardinality({k \in AwayOf(c, n) : fixtures[k].away_goals = fixtures[k].home_goals})
        al == Cardinality({k \in AwayOf(c, n) : fixtures[k].away_goals < fixtures[k].home_goals})
    IN [played |-> Cardinality(HomeOf(c, n)) + Cardinality(AwayOf(c, n)),
        won |-> hw + aw, drawn |-> hd + ad, lost |-> hl + al,
        goals_for |-> GoalsScored(c, n), goals_against |-> GoalsConceded(c, n),
        points |-> 3 * (hw + aw) + (hd + ad),
        home_wins |-> hw, home_draws |-> hd, home_losses |-> hl,
        away_wins |-> aw, away_draws |-> ad, away_losses |-> al,
        form |-> LastN(ClubLetters(c, n), FORM_WINDOW)]

\* The same fields of a row of the table.
Maintained(row) ==
    [played |-> row.played, won |-> row.won, drawn |-> row.drawn, lost |-> row.lost,
     goals_for |-> row.goals_for, goals_against |-> row.goals_against,
     points |-> row.points,
     home_wins |-> row.home_wins, home_draws |-> row.home_draws,
     home_losses |-> row.home_losses, away_wins |-> row.away_wins,
     away_draws |-> row.away_draws, away_losses |-> row.away_losses,
     form |-> row.form]

\* C27: the table is purely derived.  After every fully processed fixture
\* (and after the call has returned) every row of the incrementally
\* maintained table equals, in played, won, drawn, lost, goals_for,
\* goals_against, points, the home and away counters and form, the row
\* obtained from the zeroed table and the recorded scores of the fixtures
\* processed so far, in list order; in the first call these are exactly the
\* completed fixtures.
C27_TableDerived ==
    (AtRest /\ run >= 1) =>
        /\ \A r \in Rows :
              Maintained(league_table[r]) = Derived(league_table[r].club_id, Processed)
        /\ run = 1 => Completed = 1..Processed

\* Mid-season in the first call, with a club that has won at home and lost
\* away.
C27_Witness ==
    /\ pc = "loop"
    /\ run = 1
    /\ idx <= Len(fixtures)
    /\ \E r \in Rows : league_table[r].home_wins > 0 /\ league_table[r].away_losses > 0

\* The roster of club c is empty.
EmptyRoster(c) == ClubPlayers(players, c) = <<>>

\* C28: strength fallback.  Once the prologue of a call has run, every club of
\* the clubs list has a strength entry; a club with an empty roster has the
\* default 65.0, and no ConfigurationDefect is raised.  So a draw fails for
\* zero total strength only when neither club of the fixture has an empty
\* roster, and a fixture with an empty-roster club gets its score.
C28_StrengthFallback ==
    run >= 1 =>
        /\ DOMAIN team_strengths = RosterIds
        /\ \A c \in RosterIds :
              EmptyRoster(c) =>
                 team_strengths[c] = [num |-> DEFAULT_STRENGTH_TENTHS, den |-> 10]
        /\ error # "ConfigurationDefect"
        /\ (pc = "failed" /\ error = "ValueError") =>
              /\ ~EmptyRoster(fixtures[idx].home_club_id)
              /\ ~EmptyRoster(fixtures[idx].away_club_id)

\* A score has been drawn for a fixture between a club with an empty roster
\* and a club whose only player is rated 0.
C28_Witness ==
    /\ pc = "home"
    /\ EmptyRoster(fixtures[idx].home_club_id)
    /\ ~EmptyRoster(fixtures[idx].away_club_id)
    /\ team_strengths[fixtures[idx].away_club_id].num = 0

\* C29: season totals.  After the complete double round robin generated for
\* N distinct clubs has been simulated, every row has played = 2*(N-1),
\* home_wins + home_draws + home_losses = N-1 and
\* away_wins + away_draws + away_losses = N-1, and the points of all rows add
\* up to at least 2*N*(N-1) and at most 3*N*(N-1).
C29_SeasonTotals ==
    pc = "done" =>
        /\ \A r \in Rows :
              /\ league_table[r].played = 2 * (NumClubs - 1)
              /\ league_table[r].home_wins + league_table[r].home_draws
                    + league_table[r].home_losses = NumClubs - 1
              /\ league_table[r].away_wins + league_table[r].away_draws
                    + league_table[r].away_losses = NumClubs - 1
        /\ 2 * NumClubs * (NumClubs - 1) <= TotalPoints
        /\ TotalPoints <= 3 * NumClubs * (NumClubs - 1)

\* A season of three clubs has returned with draws and decided matches, and a
\* club that drew at home.
C29_Witness ==
    /\ pc = "done"
    /\ NumClubs = 3
    /\ 12 < TotalPoints /\ TotalPoints < 18
    /\ \E r \in Rows : league_table[r].home_draws > 0

\* 15 August of the season's start year, and the day a week later, as yyyymmdd.
SeasonStart == CURRENT_SEASON[1] * 10000 + 815
WeekLater   == CURRENT_SEASON[1] * 10000 + 822

====
